---------------------------- MODULE Spec2Model ----------------------------
(***************************************************************************)
(* Model of the OCR pipeline of dohungclgt/OCR-Recognition:                *)
(*   scan_to_text.py      _text_ratio, _ocr_tesseract, _ocr_gemini_image,  *)
(*                        scan_to_text                                     *)
(*   image_to_text.py     preprocess_image, image_to_text                  *)
(*   smart_ai_extract.py  analyze_document_ai                              *)
(*                                                                         *)
(* A text is a sequence of one-character strings.  A quality score is the  *)
(* exact quotient num/den kept as a record, compared by cross              *)
(* multiplication, so that no rounding is introduced by the model.         *)
(***************************************************************************)
EXTENDS Integers, Sequences, FiniteSets

VARIABLES
    entry,      \* the public entry point of this run
    engine,     \* scan_to_text's `engine` argument
    lang,       \* scan_to_text's `lang` argument
    file_type,  \* analyze_document_ai's `file_type` argument
    input,      \* what the caller's bytes / file hold: image, garbage or empty
    pc,         \* position of the run inside the entry point
    stages,     \* image stages executed so far, in order
    attempts,   \* recognition attempts made so far, in order
    text,       \* the local variable `text` of the running entry point
    files,      \* temporary files present on disk
    outcome,    \* how the call ended: nothing yet, a returned record, or a raise
    resp,       \* the cloud capability's response (the local `resp` / `response`)
    qs,         \* scorer harness: the string handed to _text_ratio
    qscore,     \* scorer harness: the value _text_ratio returned for qs
    qnoisy,     \* scorer harness: qs with symbol noise injected
    qnscore,    \* scorer harness: the value _text_ratio returned for qnoisy
    cpc,        \* concurrent runs: position of each image-mode request
    cfs,        \* concurrent runs: whose data each fixed-name file holds
    cgray,      \* concurrent runs: whose image each run read with cv2.imread
    cseen,      \* concurrent runs: whose raster each run's engine call got
    rin,        \* resize harness: the (h, w) of the image handed to _resize
    rout,       \* resize harness: what _resize did with it
    din,        \* deskew harness: what the skew estimator finds in the image
    dout        \* deskew harness: what the geometric normalizer did

vars == <<entry, engine, lang, file_type, input, pc, stages, attempts, text,
          files, outcome, resp, qs, qscore, qnoisy, qnscore,
          cpc, cfs, cgray, cseen, rin, rout, din, dout>>

pipeVars == <<entry, engine, lang, file_type, input, pc, stages, attempts,
              text, files, outcome, resp>>

scoreVars == <<qs, qscore, qnoisy, qnscore>>

concVars == <<cpc, cfs, cgray, cseen>>

geomVars == <<rin, rout>>

\* the variables of the harnesses other than the pipeline's and the scorer's
skewVars == <<din, dout>>

auxVars == <<concVars, geomVars, skewVars>>

---------------------------------------------------------------------------
(* Bounds of the model *)

\* longest string handed to the scorer harness
MaxLen == 3

\* longest raw string a recognition capability returns in a pipeline run
MaxOut == 3

---------------------------------------------------------------------------
(* Characters and texts *)

\* characters for which Python's str.isalnum() is true
AlnumChars == {"a", "1"}

\* characters for which Python's str.isspace() is true (form feed included)
SpaceChars == {" ", "\f"}

\* characters that are neither: punctuation and symbols
SymbolChars == {".", "#", "%", "&", "@"}

IsAlnum(ch) == ch \in AlnumChars

IsSpace(ch) == ch \in SpaceChars

\* the form-feed / page-break character '\x0c'
FormFeed == "\f"

\* all sequences over S of length at most n
SeqsUpTo(S, n) == UNION {[1..k -> S] : k \in 0..n}

\* strings handed to the scorer harness
ScoreChars == {"a", "1", " ", "."}

ScoreTexts == SeqsUpTo(ScoreChars, MaxLen)

\* raw strings a recognition capability may return
EngineChars == {"a", " ", "\f", "#"}

\* a string that scores exactly 3/5 = 0.6
BoundaryText == <<"a", "a", "a", "#", "#">>

EngineTexts == SeqsUpTo(EngineChars, MaxOut) \cup {BoundaryText}

RECURSIVE LStrip(_)
\* str.lstrip(): drop leading whitespace
LStrip(s) == IF s = <<>> THEN <<>>
             ELSE IF IsSpace(Head(s)) THEN LStrip(Tail(s)) ELSE s

RECURSIVE RStrip(_)
\* str.rstrip(): drop trailing whitespace
RStrip(s) == IF s = <<>> THEN <<>>
             ELSE IF IsSpace(s[Len(s)]) THEN RStrip(SubSeq(s, 1, Len(s) - 1))
                  ELSE s

\* str.strip()
Strip(s) == RStrip(LStrip(s))

RECURSIVE Remove(_, _)
\* str.replace(ch, ''): drop every occurrence of ch
Remove(s, ch) == IF s = <<>> THEN <<>>
                 ELSE IF Head(s) = ch THEN Remove(Tail(s), ch)
                      ELSE <<Head(s)>> \o Remove(Tail(s), ch)

RECURSIVE CountAlnum(_)
\* a count that forgets whitespace: sum(ch.isalnum() for ch in s)
CountAlnum(s) == IF s = <<>> THEN 0
                 ELSE (IF IsAlnum(Head(s)) THEN 1 ELSE 0) + CountAlnum(Tail(s))

\* a count that takes every character as valid
CountAll(s) == Len(s)

RECURSIVE CountValid(_)
\* sum(ch.isalnum() or ch.isspace() for ch in s)
CountValid(s) == IF s = <<>> THEN 0
                 ELSE (IF IsAlnum(Head(s)) \/ IsSpace(Head(s)) THEN 1 ELSE 0)
                      + CountValid(Tail(s))

Max(a, b) == IF a >= b THEN a ELSE b

---------------------------------------------------------------------------
(* Quality scores: exact quotients *)

Ratio(n, d) == [num |-> n, den |-> d]

RatLess(p, q) == p.num * q.den < q.num * p.den

RatEq(p, q) == p.num * q.den = q.num * p.den

RatLeq(p, q) == RatLess(p, q) \/ RatEq(p, q)

ZERO == Ratio(0, 1)

ONE == Ratio(1, 1)

\* the retry threshold 0.6 of _ocr_tesseract
THRESHOLD == Ratio(6, 10)

\* a scorer that returns the count of valid characters without dividing
_text_ratioNoDivision(s) ==
    IF s = <<>> THEN ZERO
    ELSE Ratio(CountValid(s), 1)

\* def _text_ratio(s)
_text_ratio(s) ==
    IF s = <<>> THEN ZERO
    ELSE Ratio(CountValid(s), Max(1, Len(s)))

---------------------------------------------------------------------------
(* Result records, exceptions and the outcome of a call.  Message strings  *)
(* are the source's Vietnamese messages written without diacritics.        *)

\* {"success": True, "text": t}
Success(t) == [success |-> TRUE, text |-> t]

\* {"success": False, "message": m}
Failure(m) == [success |-> FALSE, message |-> m]

\* the call has not ended yet
Pending == [kind |-> "none"]

\* the call returned the record r to its caller
Returned(r) == [kind |-> "return", value |-> r]

\* the exception e left the call
Raised(e) == [kind |-> "raise", exc |-> e]

\* pytesseract.image_to_string failed
TesseractError == [type |-> "TesseractError", msg |-> <<"tesseract failed">>]

\* an OpenCV call rejected its argument (empty buffer, None image)
Cv2Error == [type |-> "cv2.error", msg |-> <<"(-215:Assertion failed)">>]

\* PIL.Image.open could not identify the bytes as an image
UnidentifiedImageError ==
    [type |-> "UnidentifiedImageError", msg |-> <<"cannot identify image file">>]

\* model.generate_content failed (transport, permission, blocked response)
CloudError == [type |-> "CloudError", msg |-> <<"generate_content failed">>]

\* raise RuntimeError(f"Gemini OCR error: {e}")
GeminiExcept(e) ==
    [type |-> "RuntimeError", msg |-> <<"Gemini OCR error: ">> \o e.msg]

\* a handler that lets the exception through
ScanExceptReraise(e) == Raised(e)

\* scan_to_text: except Exception as e: return {...}
ScanExcept(e) == Returned(Failure(<<"Loi Scan OCR: ">> \o e.msg))

\* image_to_text: except Exception as e: return {...}
ImageExcept(e) == Returned(Failure(<<"Loi xu ly anh: ">> \o e.msg))

\* analyze_document_ai: except Exception as e: return {...}
\* (the message's leading warning sign is left out of the string)
AnalyzeExcept(e) == Returned(Failure(<<"Loi khi xu ly AI: ">> \o e.msg))

---------------------------------------------------------------------------
(* Inputs *)

Entries == {"scan_to_text", "image_to_text", "analyze_document_ai"}

\* values of scan_to_text's engine selector
Engines == {"gemini", "Gemini", "tesseract"}

\* a selector comparison that is case-sensitive
LowerIdentity(e) == e

\* str.lower() on the selector values
Lower(e) == CASE e = "Gemini" -> "gemini"
              [] OTHER -> e

\* lower-cased values of the lang argument that contain "eng"
Langs == {"Tieng Viet", "English"}

ContainsEng(l) == l = "English"

\* tess_lang = "eng" if "eng" in lang_ui.lower() else "vie+eng"
TessLang(l) == IF ContainsEng(l) THEN "eng" ELSE "vie+eng"

FileTypes == {"image", "pdf", "docx"}

\* what the caller's bytes (or the file at the caller's path) hold: an
\* image of a common shape, an image that is a strip one pixel high, bytes
\* that are no image, no bytes
Inputs == {"image", "strip", "garbage", "empty"}

\* the bytes decode to an image
Decodable(i) == i \in {"image", "strip"}

\* gray.shape[:2] of the decoded image
DecodedShape(i) == IF i = "strip" THEN <<1, 4400>> ELSE <<1000, 1500>>

\* what the local engine may do on one invocation
LocalOutcomes ==
    {[kind |-> "text", text |-> t] : t \in EngineTexts}
        \cup {[kind |-> "raise", exc |-> TesseractError]}

\* what the cloud capability may do on one invocation
CloudOutcomes ==
    {[kind |-> "text", text |-> t] : t \in EngineTexts}
        \cup {[kind |-> "raise", exc |-> CloudError]}

\* no response object: generate_content was not called or did not return
NoResponse == [kind |-> "none"]

\* the response object whose .text is t
Response(t) == [kind |-> "response", text |-> t]

\* one recognition attempt: the capability, its payload and parameters, and
\* what the adapter got back
Attempt(cap, payload, mode, l, ret) ==
    [cap |-> cap, payload |-> payload, mode |-> mode, lang |-> l, ret |-> ret]

GotText(t) == [kind |-> "text", text |-> t]

GotRaise(e) == [kind |-> "raise", exc |-> e]

---------------------------------------------------------------------------
(* _ocr_tesseract *)

\* a _try that returns the engine's text untrimmed
_tryNoStrip(raw) == raw

\* _try: pytesseract.image_to_string(...).strip()
_try(raw) == Strip(raw)

\* a retry test with the comparison turned around
NeedsRetryInverted(t) == RatLess(THRESHOLD, _text_ratio(t))

\* a retry test with <= in place of <
NeedsRetryLeq(t) == RatLeq(_text_ratio(t), THRESHOLD)

\* _text_ratio(text) < 0.6
NeedsRetry(t) == RatLess(_text_ratio(t), THRESHOLD)

\* a replacement test that lets the latest attempt win unconditionally
BetterAlways(tNew, tOld) == TRUE

\* a replacement test with >= in place of >
BetterOrEqual(tNew, tOld) == RatLeq(_text_ratio(tOld), _text_ratio(tNew))

\* _text_ratio(t2) > _text_ratio(text)
Better(tNew, tOld) == RatLess(_text_ratio(tOld), _text_ratio(tNew))

\* the strict gate: reject unless the score reaches 0.80
ScanGateStrict(t) ==
    IF RatLess(_text_ratio(t), Ratio(8, 10))
    THEN Failure(<<"Khong nhan dien duoc van ban (Tesseract).">>)
    ELSE Success(t)

\* if not text.strip(): failure, else success
ScanGate(t) ==
    IF Strip(t) = <<>>
    THEN Failure(<<"Khong nhan dien duoc van ban (Tesseract).">>)
    ELSE Success(t)

\* text = _try(proc, 6)
Attempt1 ==
    /\ pc = "attempt1"
    /\ \E out \in LocalOutcomes :
         IF out.kind = "raise"
         THEN /\ attempts' = Append(attempts,
                    Attempt("local", "proc", 6, TessLang(lang), GotRaise(out.exc)))
              /\ outcome' = ScanExcept(out.exc)
              /\ pc' = "done"
              /\ UNCHANGED text
         ELSE /\ attempts' = Append(attempts,
                    Attempt("local", "proc", 6, TessLang(lang), GotText(_try(out.text))))
              /\ text' = _try(out.text)
              /\ pc' = "attempt2"
              /\ UNCHANGED outcome
    /\ UNCHANGED <<entry, engine, lang, file_type, input, stages, files>>
    /\ UNCHANGED <<resp, qs, qscore, qnoisy, qnscore>>
    /\ UNCHANGED auxVars

\* a second step that never tries the inverted variant
Attempt2Skip ==
    /\ pc = "attempt2"
    /\ pc' = "attempt3"
    /\ UNCHANGED <<attempts, text, outcome, stages>>
    /\ UNCHANGED <<entry, engine, lang, file_type, input, files>>
    /\ UNCHANGED <<resp, qs, qscore, qnoisy, qnscore>>
    /\ UNCHANGED auxVars

\* if _text_ratio(text) < 0.6: inv = bitwise_not(proc); t2 = _try(inv, 6); ...
Attempt2 ==
    /\ pc = "attempt2"
    /\ \/ /\ ~NeedsRetry(text)
          /\ pc' = "attempt3"
          /\ UNCHANGED <<attempts, text, outcome, stages>>
       \/ /\ NeedsRetry(text)
          /\ stages' = Append(stages, "invert")
          /\ \E out \in LocalOutcomes :
               IF out.kind = "raise"
               THEN /\ attempts' = Append(attempts,
                          Attempt("local", "inv", 6, TessLang(lang), GotRaise(out.exc)))
                    /\ outcome' = ScanExcept(out.exc)
                    /\ pc' = "done"
                    /\ UNCHANGED text
               ELSE /\ attempts' = Append(attempts,
                          Attempt("local", "inv", 6, TessLang(lang), GotText(_try(out.text))))
                    /\ text' = IF Better(_try(out.text), text)
                               THEN _try(out.text) ELSE text
                    /\ pc' = "attempt3"
                    /\ UNCHANGED outcome
    /\ UNCHANGED <<entry, engine, lang, file_type, input, files>>
    /\ UNCHANGED <<resp, qs, qscore, qnoisy, qnscore>>
    /\ UNCHANGED auxVars

\* a multi-block attempt run on the raster of the current best attempt
Attempt3OnBest ==
    /\ pc = "attempt3"
    /\ \/ /\ ~NeedsRetry(text)
          /\ pc' = "gate"
          /\ UNCHANGED <<attempts, text, outcome>>
       \/ /\ NeedsRetry(text)
          /\ \E out \in LocalOutcomes :
               LET best == IF /\ Len(attempts) = 2
                              /\ attempts[2].ret.kind = "text"
                              /\ attempts[2].ret.text = text
                              /\ attempts[1].ret # attempts[2].ret
                           THEN "inv" ELSE "proc"
               IN  IF out.kind = "raise"
                   THEN /\ attempts' = Append(attempts,
                              Attempt("local", best, 4, TessLang(lang), GotRaise(out.exc)))
                        /\ outcome' = ScanExcept(out.exc)
                        /\ pc' = "done"
                        /\ UNCHANGED text
                   ELSE /\ attempts' = Append(attempts,
                              Attempt("local", best, 4, TessLang(lang), GotText(_try(out.text))))
                        /\ text' = IF Better(_try(out.text), text)
                                   THEN _try(out.text) ELSE text
                        /\ pc' = "gate"
                        /\ UNCHANGED outcome
    /\ UNCHANGED <<entry, engine, lang, file_type, input, stages, files>>
    /\ UNCHANGED <<resp, qs, qscore, qnoisy, qnscore>>
    /\ UNCHANGED auxVars

\* if _text_ratio(text) < 0.6: t3 = _try(proc, 4); ...
Attempt3 ==
    /\ pc = "attempt3"
    /\ \/ /\ ~NeedsRetry(text)
          /\ pc' = "gate"
          /\ UNCHANGED <<attempts, text, outcome>>
       \/ /\ NeedsRetry(text)
          /\ \E out \in LocalOutcomes :
               IF out.kind = "raise"
               THEN /\ attempts' = Append(attempts,
                          Attempt("local", "proc", 4, TessLang(lang), GotRaise(out.exc)))
                    /\ outcome' = ScanExcept(out.exc)
                    /\ pc' = "done"
                    /\ UNCHANGED text
               ELSE /\ attempts' = Append(attempts,
                          Attempt("local", "proc", 4, TessLang(lang), GotText(_try(out.text))))
                    /\ text' = IF Better(_try(out.text), text)
                               THEN _try(out.text) ELSE text
                    /\ pc' = "gate"
                    /\ UNCHANGED outcome
    /\ UNCHANGED <<entry, engine, lang, file_type, input, stages, files>>
    /\ UNCHANGED <<resp, qs, qscore, qnoisy, qnscore>>
    /\ UNCHANGED auxVars

---------------------------------------------------------------------------
(* scan_to_text *)

\* if engine.lower() == "gemini": ... else the Tesseract branch
ScanDispatch ==
    /\ entry = "scan_to_text"
    /\ pc = "dispatch"
    /\ pc' = IF Lower(engine) = "gemini" THEN "gemini" ELSE "decode"
    /\ UNCHANGED <<entry, engine, lang, file_type, input, stages, attempts,
                   text, files, outcome>>
    /\ UNCHANGED <<resp, qs, qscore, qnoisy, qnscore>>
    /\ UNCHANGED auxVars

\* a gate that forgets the empty-text test
GeminiGateAcceptEmpty(t) == Success(t)

\* if not text.strip(): failure, else success (Gemini branch)
GeminiGate(t) ==
    IF Strip(t) = <<>>
    THEN Failure(<<"Gemini khong tra ve noi dung van ban.">>)
    ELSE Success(t)

\* a Gemini branch that invokes the capability again after a failure or an
\* empty answer
ScanGeminiRetry ==
    /\ pc = "gemini"
    /\ Decodable(input)
    /\ \E out \in CloudOutcomes :
         IF out.kind = "raise"
         THEN /\ attempts' = Append(attempts,
                    Attempt("cloud", "image_bytes", "none", "none",
                            GotRaise(out.exc)))
              /\ pc' = "gemini"
              /\ resp' = NoResponse
              /\ UNCHANGED <<text, outcome>>
         ELSE /\ attempts' = Append(attempts,
                    Attempt("cloud", "image_bytes", "none", "none",
                            GotText(Strip(out.text))))
              /\ text' = Strip(out.text)
              /\ resp' = Response(out.text)
              /\ IF Strip(out.text) = <<>>
                 THEN pc' = "gemini" /\ UNCHANGED outcome
                 ELSE pc' = "done" /\ outcome' = Returned(Success(Strip(out.text)))
    /\ UNCHANGED <<entry, engine, lang, file_type, input, stages, files>>
    /\ UNCHANGED scoreVars
    /\ UNCHANGED auxVars

\* a Gemini branch that hands the bytes to the capability without opening
\* them as an image first
ScanGeminiRawBytes ==
    /\ pc = "gemini"
    /\ \E out \in CloudOutcomes :
         IF out.kind = "raise"
         THEN /\ attempts' = Append(attempts,
                    Attempt("cloud", "image_bytes", "none", "none",
                            GotRaise(out.exc)))
              /\ outcome' = ScanExcept(GeminiExcept(out.exc))
              /\ resp' = NoResponse
              /\ UNCHANGED text
         ELSE /\ attempts' = Append(attempts,
                    Attempt("cloud", "image_bytes", "none", "none",
                            GotText(Strip(out.text))))
              /\ text' = Strip(out.text)
              /\ resp' = Response(out.text)
              /\ outcome' = Returned(GeminiGate(Strip(out.text)))
    /\ pc' = "done"
    /\ UNCHANGED <<entry, engine, lang, file_type, input, stages, files>>
    /\ UNCHANGED scoreVars
    /\ UNCHANGED auxVars

\* a Gemini branch that enhances the image as the Tesseract branch does and
\* hands the enhanced raster to the capability
ScanGeminiEnhanced ==
    /\ pc = "gemini"
    /\ \/ /\ ~Decodable(input)
          /\ outcome' = ScanExcept(GeminiExcept(UnidentifiedImageError))
          /\ UNCHANGED <<attempts, text, resp, stages>>
       \/ /\ Decodable(input)
          /\ stages' = <<"decode", "grayscale", "resize", "deskew", "enhance">>
          /\ \E out \in CloudOutcomes :
               IF out.kind = "raise"
               THEN /\ attempts' = Append(attempts,
                          Attempt("cloud", "proc", "none", "none",
                                  GotRaise(out.exc)))
                    /\ outcome' = ScanExcept(GeminiExcept(out.exc))
                    /\ resp' = NoResponse
                    /\ UNCHANGED text
               ELSE /\ attempts' = Append(attempts,
                          Attempt("cloud", "proc", "none", "none",
                                  GotText(Strip(out.text))))
                    /\ text' = Strip(out.text)
                    /\ resp' = Response(out.text)
                    /\ outcome' = Returned(GeminiGate(Strip(out.text)))
    /\ pc' = "done"
    /\ UNCHANGED <<entry, engine, lang, file_type, input, files>>
    /\ UNCHANGED scoreVars
    /\ UNCHANGED auxVars

\* text = _ocr_gemini_image(image_bytes, model_name=model) and the gate on it.
\* Image.open(BytesIO(image_bytes)) runs before generate_content: bytes that
\* are no image raise there and the cloud capability is not invoked.
ScanGemini ==
    /\ pc = "gemini"
    /\ \/ /\ ~Decodable(input)
          /\ outcome' = ScanExcept(GeminiExcept(UnidentifiedImageError))
          /\ UNCHANGED <<attempts, text, resp>>
       \/ /\ Decodable(input)
          /\ \E out \in CloudOutcomes :
               IF out.kind = "raise"
               THEN /\ attempts' = Append(attempts,
                          Attempt("cloud", "image_bytes", "none", "none",
                                  GotRaise(out.exc)))
                    /\ outcome' = ScanExcept(GeminiExcept(out.exc))
                    /\ resp' = NoResponse
                    /\ UNCHANGED text
               ELSE /\ attempts' = Append(attempts,
                          Attempt("cloud", "image_bytes", "none", "none",
                                  GotText(Strip(out.text))))
                    /\ text' = Strip(out.text)
                    /\ resp' = Response(out.text)
                    /\ outcome' = Returned(GeminiGate(Strip(out.text)))
    /\ pc' = "done"
    /\ UNCHANGED <<entry, engine, lang, file_type, input, stages, files>>
    /\ UNCHANGED scoreVars
    /\ UNCHANGED auxVars

\* np.frombuffer, cv2.imdecode, if bgr is None: return failure.
\* cv2.imdecode returns None for bytes that are no image and raises on an
\* empty buffer.
ScanDecode ==
    /\ pc = "decode"
    /\ \/ /\ Decodable(input)
          /\ stages' = Append(stages, "decode")
          /\ pc' = "normalize"
          /\ UNCHANGED outcome
       \/ /\ input = "garbage"
          /\ outcome' = Returned(Failure(<<"Khong doc duoc anh camera">>))
          /\ pc' = "done"
          /\ UNCHANGED stages
       \/ /\ input = "empty"
          /\ outcome' = ScanExcept(Cv2Error)
          /\ pc' = "done"
          /\ UNCHANGED stages
    /\ UNCHANGED <<entry, engine, lang, file_type, input, attempts, text, files>>
    /\ UNCHANGED <<resp, qs, qscore, qnoisy, qnscore>>
    /\ UNCHANGED auxVars

(* _resize.  cv2.resize called with dsize = None computes the output size   *)
(* as (cvRound(w * fx), cvRound(h * fy)), cvRound rounding halves to the   *)
(* even neighbour, and raises when a side of that size is 0.               *)

\* if max_side > 2200
DOWNSCALE_ABOVE == 2200

\* if max_side < 900
UPSCALE_BELOW == 900

\* s = 1300 / max(1, max_side)
UPSCALE_TARGET == 1300

\* side lengths of decoded images: around both thresholds, strips, and
\* sides whose scaled length is a half exactly (45 of 72, 81 of 216, 534 of
\* 2848, 1 and 3 and 5 of 4400)
Sizes == {1, 3, 5, 45, 72, 81, 216, 450, 534, 899, 900, 1300, 2200, 2201,
          2848, 3000, 4400, 4401}

\* cvRound(n / d) for n >= 0, d > 0
cvRound(n, d) ==
    LET q == n \div d
        r == n % d
    IN  IF 2 * r < d THEN q
        ELSE IF 2 * r > d THEN q + 1
        ELSE IF q % 2 = 0 THEN q ELSE q + 1

Unsized == [kind |-> "none"]

Image(h, w) == [kind |-> "image", h |-> h, w |-> w]

RECURSIVE Pow2(_)
Pow2(k) == IF k = 0 THEN 1 ELSE 2 * Pow2(k - 1)

RECURSIVE FloorLog2(_, _)
\* the exponent e of the double nearest n / d: 2^e <= n / d < 2^(e + 1)
FloorLog2(n, d) ==
    IF n >= 2 * d THEN FloorLog2(n, 2 * d) + 1
    ELSE IF n < d THEN FloorLog2(2 * n, d) - 1
    ELSE 0

RECURSIVE RemAfter(_, _, _)
\* (r * 2^k) % d: what n / d leaves beyond the 53 bits of a double
RemAfter(r, d, k) == IF k = 0 THEN r % d ELSE RemAfter((2 * r) % d, d, k - 1)

\* s = n / d as a double: (s - n/d) in units of ulp(s) / d
FloatError(n, d) ==
    LET r == RemAfter(n % d, d, 52 - FloorLog2(n, d))
    IN  IF 2 * r < d THEN -r ELSE d - r

\* whether x > d * 2^k, x an integer
ScaledAbove(x, k, d) ==
    IF k >= 0 THEN x > d * Pow2(k) ELSE x > d \div Pow2(-k)

\* cvRound(side * s), s the double n / d and the product a double.  The
\* product is off side * n / d by far less than the distance of that
\* quotient to a half, unless the quotient is q + 1/2 exactly: then the
\* product is the double q + 1/2 or a neighbour of it, as the error
\* side * (s - n/d) is within or beyond half an ulp of q + 1/2.
cvRoundProduct(side, n, d) ==
    LET q == (side * n) \div d
        r == (side * n) % d
        th == FloatError(n, d)
        k == FloorLog2(2 * q + 1, 2) - FloorLog2(n, d)
    IN  IF 2 * r # d THEN cvRound(side * n, d)
        ELSE IF ScaledAbove(2 * side * th, k, d) THEN q + 1
        ELSE IF ScaledAbove((IF q = 0 THEN 4 ELSE 2) * side * (-th), k, d) THEN q
        ELSE IF q % 2 = 0 THEN q ELSE q + 1

\* cv2.resize(gray, None, fx=s, fy=s, ...), s the double n / d
cv2_resize(h, w, n, d) ==
    LET oh == cvRoundProduct(h, n, d)
        ow == cvRoundProduct(w, n, d)
    IN  IF oh = 0 \/ ow = 0
        THEN [kind |-> "raise", exc |-> Cv2Error]
        ELSE Image(oh, ow)

_resize(h, w) ==
    LET max_side == Max(h, w)
    IN  IF max_side > DOWNSCALE_ABOVE
        THEN cv2_resize(h, w, DOWNSCALE_ABOVE, max_side)
        ELSE IF max_side < UPSCALE_BELOW
        THEN cv2_resize(h, w, UPSCALE_TARGET, Max(1, max_side))
        ELSE Image(h, w)

\* a normalisation that straightens the page before it fixes the resolution
ScanNormalizeDeskewFirst ==
    /\ pc = "normalize"
    /\ stages' = stages \o <<"grayscale", "deskew", "resize">>
    /\ pc' = "enhance"
    /\ UNCHANGED <<entry, engine, lang, file_type, input, attempts, text,
                   files, outcome>>
    /\ UNCHANGED <<resp, qs, qscore, qnoisy, qnscore>>
    /\ UNCHANGED auxVars

\* gray = cvtColor(bgr); gray = _resize(gray); gray = _deskew(gray).  When
\* cv2.resize raises inside _resize the except clause of scan_to_text
\* returns the failure and neither _deskew nor a later stage runs.
ScanNormalize ==
    /\ pc = "normalize"
    /\ IF _resize(DecodedShape(input)[1], DecodedShape(input)[2]).kind = "raise"
       THEN /\ stages' = Append(stages, "grayscale")
            /\ outcome' = ScanExcept(Cv2Error)
            /\ pc' = "done"
       ELSE /\ stages' = stages \o <<"grayscale", "resize", "deskew">>
            /\ pc' = "enhance"
            /\ UNCHANGED outcome
    /\ UNCHANGED <<entry, engine, lang, file_type, input, attempts, text, files>>
    /\ UNCHANGED <<resp, qs, qscore, qnoisy, qnscore>>
    /\ UNCHANGED auxVars

\* proc = _preprocess(gray)
ScanEnhance ==
    /\ pc = "enhance"
    /\ stages' = Append(stages, "enhance")
    /\ pc' = "attempt1"
    /\ UNCHANGED <<entry, engine, lang, file_type, input, attempts, text,
                   files, outcome>>
    /\ UNCHANGED <<resp, qs, qscore, qnoisy, qnscore>>
    /\ UNCHANGED auxVars

\* return text (from _ocr_tesseract), then the gate of scan_to_text
ScanReturn ==
    /\ pc = "gate"
    /\ outcome' = Returned(ScanGate(text))
    /\ pc' = "done"
    /\ UNCHANGED <<entry, engine, lang, file_type, input, stages, attempts,
                   text, files>>
    /\ UNCHANGED <<resp, qs, qscore, qnoisy, qnscore>>
    /\ UNCHANGED auxVars

---------------------------------------------------------------------------
(* image_to_text *)

\* text = text.replace('\x0c', '').strip()
ImageClean(raw) == Strip(Remove(raw, FormFeed))

\* if not text: failure, else success
ImageGate(t) ==
    IF t = <<>>
    THEN Failure(<<"Khong phat hien duoc chu trong anh.">>)
    ELSE Success(t)

\* processed = preprocess_image(image_path).  cv2.imread returns None for a
\* file that is no image, and cv2.cvtColor raises on None.
ImagePreprocess ==
    /\ entry = "image_to_text"
    /\ pc = "preprocess"
    /\ \/ /\ Decodable(input)
          /\ stages' = <<"decode", "grayscale", "smooth", "deskew", "enhance">>
          /\ files' = files \cup {"temp_processed.png"}
          /\ pc' = "recognize"
          /\ UNCHANGED outcome
       \/ /\ ~Decodable(input)
          /\ outcome' = ImageExcept(Cv2Error)
          /\ pc' = "done"
          /\ UNCHANGED <<stages, files>>
    /\ UNCHANGED <<entry, engine, lang, file_type, input, attempts, text>>
    /\ UNCHANGED <<resp, qs, qscore, qnoisy, qnscore>>
    /\ UNCHANGED auxVars

\* text = pytesseract.image_to_string(Image.open(processed), ...), the
\* clean-up of the text and the gate
ImageRecognize ==
    /\ pc = "recognize"
    /\ \E out \in LocalOutcomes :
         IF out.kind = "raise"
         THEN /\ attempts' = Append(attempts,
                    Attempt("local", "temp_processed.png", 6, "vie+eng",
                            GotRaise(out.exc)))
              /\ outcome' = ImageExcept(out.exc)
              /\ UNCHANGED text
         ELSE /\ attempts' = Append(attempts,
                    Attempt("local", "temp_processed.png", 6, "vie+eng",
                            GotText(ImageClean(out.text))))
              /\ text' = ImageClean(out.text)
              /\ outcome' = Returned(ImageGate(ImageClean(out.text)))
    /\ pc' = "done"
    /\ UNCHANGED <<entry, engine, lang, file_type, input, stages, files>>
    /\ UNCHANGED <<resp, qs, qscore, qnoisy, qnscore>>
    /\ UNCHANGED auxVars

---------------------------------------------------------------------------
(* analyze_document_ai *)

\* if not result_text: failure, else success
AnalyzeGate(t) ==
    IF t = <<>>
    THEN Failure(<<"Khong nhan duoc phan hoi tu Gemini AI.">>)
    ELSE Success(t)

\* the hand-off of file_data: the temporary file and, for an image,
\* Image.open(tmp_path); an unsupported file_type returns at once
AnalyzePrepare ==
    /\ entry = "analyze_document_ai"
    /\ pc = "prepare"
    /\ \/ /\ file_type = "image"
          /\ files' = files \cup {"tmp.png"}
          /\ IF Decodable(input)
             THEN pc' = "generate" /\ UNCHANGED outcome
             ELSE pc' = "done" /\ outcome' = AnalyzeExcept(UnidentifiedImageError)
       \/ /\ file_type = "pdf"
          /\ files' = files \cup {"tmp.pdf"}
          /\ pc' = "generate"
          /\ UNCHANGED outcome
       \/ /\ file_type \notin {"image", "pdf"}
          /\ outcome' = Returned(Failure(<<"Khong ho tro loai file: ", file_type>>))
          /\ pc' = "done"
          /\ UNCHANGED files
    /\ UNCHANGED <<entry, engine, lang, file_type, input, stages, attempts, text>>
    /\ UNCHANGED <<resp, qs, qscore, qnoisy, qnscore>>
    /\ UNCHANGED auxVars

\* response = model.generate_content([...]); result_text = response.text.strip()
\* and the gate
AnalyzeGenerate ==
    /\ pc = "generate"
    /\ \E out \in CloudOutcomes :
         IF out.kind = "raise"
         THEN /\ attempts' = Append(attempts,
                    Attempt("cloud", IF file_type = "image" THEN "tmp.png" ELSE "tmp.pdf",
                            "none", "none", GotRaise(out.exc)))
              /\ outcome' = AnalyzeExcept(out.exc)
              /\ resp' = NoResponse
              /\ UNCHANGED text
         ELSE /\ attempts' = Append(attempts,
                    Attempt("cloud", IF file_type = "image" THEN "tmp.png" ELSE "tmp.pdf",
                            "none", "none", GotText(Strip(out.text))))
              /\ text' = Strip(out.text)
              /\ resp' = Response(out.text)
              /\ outcome' = Returned(AnalyzeGate(Strip(out.text)))
    /\ pc' = "done"
    /\ UNCHANGED <<entry, engine, lang, file_type, input, stages, files>>
    /\ UNCHANGED scoreVars
    /\ UNCHANGED auxVars

---------------------------------------------------------------------------
(* The pipeline specification: one call of one public entry point *)

\* a score that has not been computed
NoScore == Ratio(0, 0)

\* number of simultaneous image-mode requests
NumRuns == 3

Runs == 1..NumRuns

\* the content of a file that was opened for writing and not yet written
Truncated == -1

\* what cv2.imread returns for a file that holds no image: None
NoneRead == -1

\* the fixed file names of the image-mode hand-off
FileNames == {"temp_image.png", "temp_processed.png"}

ConcIdle ==
    /\ cpc = [r \in Runs |-> "idle"]
    /\ cfs = [f \in FileNames |-> 0]
    /\ cgray = [r \in Runs |-> 0]
    /\ cseen = [r \in Runs |-> 0]

GeomIdle ==
    /\ rin = <<0, 0>>
    /\ rout = [kind |-> "none"]

SkewIdle ==
    /\ din = [fn |-> "none"]
    /\ dout = [kind |-> "none"]

AuxIdle == ConcIdle /\ GeomIdle /\ SkewIdle

ScoreIdle ==
    /\ qs = <<>>
    /\ qscore = NoScore
    /\ qnoisy = <<>>
    /\ qnscore = NoScore

Init ==
    /\ entry \in Entries
    /\ input \in Inputs
    /\ engine \in (IF entry = "scan_to_text" THEN Engines ELSE {"gemini"})
    /\ lang \in (IF entry = "scan_to_text" THEN Langs ELSE {"Tieng Viet"})
    /\ file_type \in (IF entry = "analyze_document_ai" THEN FileTypes ELSE {"image"})
    /\ pc = CASE entry = "scan_to_text" -> "dispatch"
              [] entry = "image_to_text" -> "preprocess"
              [] entry = "analyze_document_ai" -> "prepare"
    /\ stages = <<>>
    /\ attempts = <<>>
    /\ text = <<>>
    /\ files = {}
    /\ outcome = Pending
    /\ resp = NoResponse
    /\ ScoreIdle
    /\ AuxIdle

Next ==
    \/ ScanDispatch
    \/ ScanGemini
    \/ ScanDecode
    \/ ScanNormalize
    \/ ScanEnhance
    \/ Attempt1
    \/ Attempt2
    \/ Attempt3
    \/ ScanReturn
    \/ ImagePreprocess
    \/ ImageRecognize
    \/ AnalyzePrepare
    \/ AnalyzeGenerate

Spec == Init /\ [][Next]_vars

---------------------------------------------------------------------------
(* The scorer specification: _text_ratio applied to a string and to the    *)
(* same string with symbol noise injected                                  *)

\* the symbol characters injected as noise
NoiseSymbols == {"#", "%", "&", "@"}

\* s with the characters at the positions of P replaced as f says
Replace(s, P, f) == [i \in DOMAIN s |-> IF i \in P THEN f[i] ELSE s[i]]

PipeIdle ==
    /\ entry = "none"
    /\ input = "image"
    /\ engine = "gemini"
    /\ lang = "Tieng Viet"
    /\ file_type = "image"
    /\ pc = "idle"
    /\ stages = <<>>
    /\ attempts = <<>>
    /\ text = <<>>
    /\ files = {}
    /\ outcome = Pending
    /\ resp = NoResponse

ScoreInit ==
    /\ qs \in ScoreTexts
    /\ qscore = NoScore
    /\ qnoisy = <<>>
    /\ qnscore = NoScore
    /\ PipeIdle
    /\ AuxIdle

\* score = _text_ratio(qs)
TextRatioCall ==
    /\ pc = "idle"
    /\ qscore = NoScore
    /\ qscore' = _text_ratio(qs)
    /\ UNCHANGED <<qs, qnoisy, qnscore>>
    /\ UNCHANGED pipeVars
    /\ UNCHANGED auxVars

\* replace a non-empty set of positions of qs by noise symbols and score it
InjectNoise ==
    /\ pc = "idle"
    /\ qscore # NoScore
    /\ qnscore = NoScore
    /\ \E P \in (SUBSET DOMAIN qs) \ {{}} :
         \E f \in [P -> NoiseSymbols] :
            /\ qnoisy' = Replace(qs, P, f)
            /\ qnscore' = _text_ratio(Replace(qs, P, f))
    /\ UNCHANGED <<qs, qscore>>
    /\ UNCHANGED pipeVars
    /\ UNCHANGED auxVars

ScoreNext ==
    \/ TextRatioCall
    \/ InjectNoise

SpecScore == ScoreInit /\ [][ScoreNext]_vars

---------------------------------------------------------------------------
(* Vocabulary of the claims *)

\* a scan_to_text run that takes the Tesseract branch
TessRun == entry = "scan_to_text" /\ Lower(engine) # "gemini"

\* a scan_to_text run that takes the Gemini branch
GeminiRun == entry = "scan_to_text" /\ Lower(engine) = "gemini"

\* every attempt made so far came back with a text
NoFault == \A i \in DOMAIN attempts : attempts[i].ret.kind = "text"

AttemptText(i) == attempts[i].ret.text

AttemptScore(i) == _text_ratio(attempts[i].ret.text)

\* the number of attempts made with capability cap
Invocations(cap) == Cardinality({i \in DOMAIN attempts : attempts[i].cap = cap})

\* _ocr_tesseract has returned its text
TessReturned ==
    /\ TessRun
    /\ pc \in {"gate", "done"}
    /\ Len(attempts) >= 1
    /\ NoFault

---------------------------------------------------------------------------
(* C1: every public entry point ends by returning a result record: no      *)
(* exception leaves the call, a run that has not ended can take a step, a  *)
(* record with success = TRUE carries a text field and a record with       *)
(* success = FALSE carries a message field.                                *)
C1_AlwaysResultRecord ==
    /\ outcome.kind # "raise"
    /\ pc # "done" => (outcome = Pending /\ ENABLED Next)
    /\ pc = "done" =>
         /\ outcome.kind = "return"
         /\ "success" \in DOMAIN outcome.value
         /\ outcome.value.success => "text" \in DOMAIN outcome.value
         /\ ~outcome.value.success => "message" \in DOMAIN outcome.value

\* a Tesseract scan whose engine raised at the second attempt has returned a
\* failure record
C1_Witness ==
    /\ TessRun
    /\ pc = "done"
    /\ Len(attempts) = 2
    /\ attempts[2].ret.kind = "raise"
    /\ outcome.kind = "return"
    /\ ~outcome.value.success

(* C2: early stop: in a Tesseract run whose first attempt scored above     *)
(* 0.6, the local engine is invoked exactly once and no inverted variant   *)
(* is produced.                                                            *)
C2_EarlyStop ==
    (/\ TessRun
     /\ Len(attempts) >= 1
     /\ attempts[1].ret.kind = "text"
     /\ RatLess(THRESHOLD, AttemptScore(1)))
    => /\ Len(attempts) = 1
       /\ Invocations("local") = 1
       /\ \A i \in DOMAIN stages : stages[i] # "invert"

\* a finished Tesseract run whose first attempt scored above 0.6
C2_Witness ==
    /\ TessRun
    /\ pc = "done"
    /\ Len(attempts) = 1
    /\ attempts[1].ret.kind = "text"
    /\ RatLess(THRESHOLD, AttemptScore(1))
    /\ outcome.kind = "return"
    /\ outcome.value.success

(* C3: fallback ordering: when attempt 1 scores below 0.6, the inverted    *)
(* attempt scores strictly higher than attempt 1 and the multi-block       *)
(* attempt, if made, scores lower than the inverted one, _ocr_tesseract    *)
(* returns the inverted attempt's text.                                    *)
C3_FallbackOrdering ==
    (/\ TessReturned
     /\ RatLess(AttemptScore(1), THRESHOLD))
    => /\ Len(attempts) >= 2
       /\ (/\ RatLess(AttemptScore(1), AttemptScore(2))
           /\ Len(attempts) = 3 => RatLess(AttemptScore(3), AttemptScore(2)))
          => text = AttemptText(2)

\* low on attempt 1, higher (still below 0.6) on the inverted variant, lower
\* again on the multi-block attempt
C3_Witness ==
    /\ TessReturned
    /\ Len(attempts) = 3
    /\ RatLess(AttemptScore(1), AttemptScore(2))
    /\ RatLess(AttemptScore(2), THRESHOLD)
    /\ RatLess(AttemptScore(3), AttemptScore(2))
    /\ text = AttemptText(2)
    /\ text # AttemptText(1)
    /\ text # AttemptText(3)

(* C4: selection rule: the text _ocr_tesseract returns is the text of the  *)
(* attempt with the highest score among the attempts made, and among       *)
(* attempts sharing that highest score it is the earliest one.             *)
C4_SelectionRule ==
    TessReturned
    => \E k \in DOMAIN attempts :
          /\ text = AttemptText(k)
          /\ \A j \in DOMAIN attempts : RatLeq(AttemptScore(j), AttemptScore(k))
          /\ \A j \in 1..(k - 1) : RatLess(AttemptScore(j), AttemptScore(k))

\* three attempts, the first two tie on the highest score with different
\* texts, and the first one is returned
C4_Witness ==
    /\ TessReturned
    /\ Len(attempts) = 3
    /\ RatEq(AttemptScore(1), AttemptScore(2))
    /\ RatLess(AttemptScore(3), AttemptScore(1))
    /\ AttemptText(1) # AttemptText(2)
    /\ text = AttemptText(1)

(* C5: permissive gate, applied by both local entry points: a local run    *)
(* that decoded and recognized without a fault succeeds exactly when the   *)
(* best attempt's trimmed text is non-empty, whatever its score, and then  *)
(* returns that text.                                                      *)
C5_PermissiveGate ==
    (/\ TessRun \/ entry = "image_to_text"
     /\ pc = "done"
     /\ Len(attempts) >= 1
     /\ NoFault)
    => /\ outcome.kind = "return"
       /\ outcome.value.success <=> (Strip(text) # <<>>)
       /\ outcome.value.success => outcome.value.text = text

\* a Tesseract scan accepted although its best score is below 0.6
C5_Witness ==
    /\ TessRun
    /\ pc = "done"
    /\ Len(attempts) = 3
    /\ NoFault
    /\ RatLess(_text_ratio(text), THRESHOLD)
    /\ outcome.kind = "return"
    /\ outcome.value.success

---------------------------------------------------------------------------
(* Claims about the scorer, checked under SpecScore *)

\* the positions of s that hold an alphanumeric or whitespace character
ValidPositions(s) == {i \in DOMAIN s : IsAlnum(s[i]) \/ IsSpace(s[i])}

\* the positions at which noise was injected
NoisePositions == {i \in DOMAIN qs : qnoisy[i] # qs[i]}

Scored == qscore # NoScore

NoiseScored == qnscore # NoScore

(* C6: score bounds: _text_ratio(s) lies in [0, 1], equals the number of   *)
(* alphanumeric-or-whitespace characters divided by the length for a       *)
(* non-empty s, and is 0 for the empty string.                             *)
C6_ScoreBounds ==
    Scored =>
       /\ qscore.den > 0
       /\ RatLeq(ZERO, qscore)
       /\ RatLeq(qscore, ONE)
       /\ qs # <<>> => RatEq(qscore, Ratio(Cardinality(ValidPositions(qs)), Len(qs)))
       /\ qs = <<>> => RatEq(qscore, ZERO)

\* a scored string that mixes whitespace, alphanumeric and symbol characters
C6_Witness ==
    /\ Scored
    /\ Len(qs) = 3
    /\ \E i, j, k \in DOMAIN qs : IsSpace(qs[i]) /\ IsAlnum(qs[j]) /\ qs[k] \in SymbolChars
    /\ RatEq(qscore, Ratio(2, 3))

(* C7: the score is 0.0 for every text that is empty or consists only of   *)
(* whitespace characters.                                                  *)
C7_WhitespaceScoresZero ==
    (Scored /\ \A i \in DOMAIN qs : IsSpace(qs[i])) => RatEq(qscore, ZERO)

(* C8: the score is 1.0 only if every character is alphanumeric or         *)
(* whitespace: a string holding a character that is neither scores         *)
(* strictly below 1.0.                                                     *)
C8_OneOnlyIfAllValid ==
    (Scored /\ \E i \in DOMAIN qs : ~(IsAlnum(qs[i]) \/ IsSpace(qs[i])))
    => RatLess(qscore, ONE)

\* a scored string with one symbol among alphanumeric characters
C8_Witness ==
    /\ Scored
    /\ Len(qs) = 3
    /\ Cardinality({i \in DOMAIN qs : qs[i] \in SymbolChars}) = 1
    /\ Cardinality({i \in DOMAIN qs : IsAlnum(qs[i])}) = 2
    /\ RatLess(qscore, ONE)
    /\ RatLess(ZERO, qscore)

\* a string of at least two characters, one of them alphanumeric
NonTrivial(s) == Len(s) >= 2 /\ \E i \in DOMAIN s : IsAlnum(s[i])

(* C9 as stated: replacing some characters of any non-trivial string by    *)
(* symbols of #%&@ gives a strictly lower score.                           *)
C9_NoiseStrictlyLowers ==
    (NoiseScored /\ NonTrivial(qs)) => RatLess(qnscore, qscore)

(* C9 amended: replacing characters by symbols of #%&@ never raises the    *)
(* score; it lowers it strictly exactly when at least one replaced         *)
(* character was alphanumeric or whitespace (so always for a string made   *)
(* of such characters only), and leaves it equal when only characters that *)
(* were already symbols are replaced.                                      *)
C9_NoiseLowersValid ==
    NoiseScored =>
       /\ RatLeq(qnscore, qscore)
       /\ RatLess(qnscore, qscore)
            <=> (NoisePositions \cap ValidPositions(qs) # {})
       /\ ValidPositions(qs) = DOMAIN qs => RatLess(qnscore, qscore)

\* a string of alphanumeric and whitespace characters only, noise injected
\* at one of its positions, scored lower than the original
C9_Witness ==
    /\ NoiseScored
    /\ NonTrivial(qs)
    /\ ValidPositions(qs) = DOMAIN qs
    /\ Cardinality(NoisePositions) = 1
    /\ RatEq(qscore, ONE)
    /\ RatLess(qnscore, qscore)

---------------------------------------------------------------------------
(* C10: the cloud path of scan_to_text is single-attempt: the cloud        *)
(* capability is invoked at most once, no other capability is tried, and   *)
(* a run whose cloud call failed or returned empty text ends with a        *)
(* failure record without a further invocation.                            *)
C10_CloudSingleAttempt ==
    GeminiRun =>
       /\ Invocations("cloud") <= 1
       /\ Invocations("local") = 0
       /\ (/\ Len(attempts) >= 1
           /\ \/ attempts[1].ret.kind = "raise"
              \/ attempts[1].ret.text = <<>>)
          => /\ pc = "done"
             /\ Len(attempts) = 1
             /\ outcome.kind = "return"
             /\ ~outcome.value.success

\* a Gemini scan whose single cloud call failed has ended with a failure
C10_Witness ==
    /\ GeminiRun
    /\ pc = "done"
    /\ Len(attempts) = 1
    /\ attempts[1].cap = "cloud"
    /\ attempts[1].ret.kind = "raise"
    /\ outcome.kind = "return"
    /\ ~outcome.value.success

---------------------------------------------------------------------------
\* a run that uses the cloud capability
CloudRun == GeminiRun \/ entry = "analyze_document_ai"

\* the message of the entry point's "no text" failure
NoTextMessage ==
    IF entry = "scan_to_text"
    THEN <<"Gemini khong tra ve noi dung van ban.">>
    ELSE <<"Khong nhan duoc phan hoi tu Gemini AI.">>

\* the last Len(d) elements of message m are d
EndsWith(m, d) ==
    /\ Len(m) >= Len(d)
    /\ SubSeq(m, Len(m) - Len(d) + 1, Len(m)) = d

(* C11: cloud outcome mapping: a cloud run whose capability returned an    *)
(* empty or whitespace-only string ends with the "no text" failure; a run  *)
(* whose capability call raised ends with a different failure whose        *)
(* message carries the exception's detail; neither ends in success.        *)
C11_CloudOutcomeMapping ==
    (CloudRun /\ pc = "done" /\ Len(attempts) = 1)
    => /\ outcome.kind = "return"
       /\ attempts[1].ret.kind = "raise" =>
            /\ ~outcome.value.success
            /\ outcome.value.message # NoTextMessage
            /\ EndsWith(outcome.value.message, attempts[1].ret.exc.msg)
       /\ (resp.kind = "response" /\ Strip(resp.text) = <<>>) =>
            /\ ~outcome.value.success
            /\ outcome.value.message = NoTextMessage
       /\ outcome.value.success =>
            /\ resp.kind = "response"
            /\ Strip(resp.text) # <<>>
            /\ attempts[1].ret.kind = "text"

\* a Gemini scan whose capability answered with whitespace only has ended
\* with the "no text" failure
C11_Witness ==
    /\ GeminiRun
    /\ pc = "done"
    /\ Len(attempts) = 1
    /\ resp.kind = "response"
    /\ Len(resp.text) >= 2
    /\ Strip(resp.text) = <<>>
    /\ outcome.kind = "return"
    /\ ~outcome.value.success
    /\ outcome.value.message = NoTextMessage

---------------------------------------------------------------------------
(* C12: decode error: in a scan_to_text run (either engine) or an          *)
(* image_to_text run whose input cannot be decoded as an image, no         *)
(* recognition attempt is ever made, no image stage runs, and the run ends *)
(* at its decode step with a failure record.                               *)
C12_DecodeErrorNoAttempt ==
    (entry \in {"scan_to_text", "image_to_text"} /\ ~Decodable(input))
    => /\ attempts = <<>>
       /\ resp = NoResponse
       /\ stages = <<>>
       /\ pc \in {"dispatch", "gemini", "decode", "preprocess", "done"}
       /\ pc = "done" => (outcome.kind = "return" /\ ~outcome.value.success)

\* a Gemini scan of bytes that are no image has ended with a failure and
\* without an invocation
C12_Witness ==
    /\ GeminiRun
    /\ input = "garbage"
    /\ pc = "done"
    /\ attempts = <<>>
    /\ outcome.kind = "return"
    /\ ~outcome.value.success

---------------------------------------------------------------------------
(* C13: capability-error recovery: in a Tesseract run, an attempt whose    *)
(* engine invocation raised while a later strategy remained (the inverted  *)
(* variant after attempt 1, the multi-block mode after attempt 2) is       *)
(* followed by the next strategy; a finished run holds a raised attempt    *)
(* without a successor only at the last strategy.                          *)
C13_RecoversFromRaise ==
    (TessRun /\ pc = "done")
    => \A i \in DOMAIN attempts :
          (attempts[i].ret.kind = "raise" /\ i < 3) => Len(attempts) > i

---------------------------------------------------------------------------
\* attempt i came back with an empty or whitespace-only text
NoTextAt(i) ==
    /\ attempts[i].ret.kind = "text"
    /\ Strip(attempts[i].ret.text) = <<>>

\* the run has passed the retry decision that follows attempt i
PastDecisionAfter(i) ==
    \/ i = 1 /\ pc \in {"attempt3", "gate", "done"}
    \/ i = 2 /\ pc \in {"gate", "done"}

(* C14: no text counts as a zero score: in a Tesseract run an attempt that *)
(* returned empty or whitespace-only text is scored 0.0 and, like any      *)
(* score below 0.6, is followed by the next attempt; a run whose attempts  *)
(* all returned no text makes all three attempts and ends with the         *)
(* Tesseract "no text" failure.                                            *)
C14_NoTextIsZeroScore ==
    TessRun =>
       /\ \A i \in DOMAIN attempts :
             NoTextAt(i) =>
                /\ RatEq(AttemptScore(i), ZERO)
                /\ RatLess(AttemptScore(i), THRESHOLD)
                /\ PastDecisionAfter(i) => Len(attempts) > i
       /\ (/\ pc = "done"
           /\ Len(attempts) >= 1
           /\ \A i \in DOMAIN attempts : NoTextAt(i))
          => /\ Len(attempts) = 3
             /\ outcome = Returned(Failure(<<"Khong nhan dien duoc van ban (Tesseract).">>))

\* three attempts that all came back without text, and the run rejected
C14_Witness ==
    /\ TessRun
    /\ pc = "done"
    /\ Len(attempts) = 3
    /\ \A i \in DOMAIN attempts : NoTextAt(i)
    /\ stages = <<"decode", "grayscale", "resize", "deskew", "enhance", "invert">>
    /\ outcome.kind = "return"
    /\ ~outcome.value.success

---------------------------------------------------------------------------
(* C15: temporary-file discipline: when a pipeline call has finished,      *)
(* on any exit path, no temporary file written during the call is left on  *)
(* disk.                                                                   *)
C15_TempFilesDeleted == pc = "done" => files = {}


(***************************************************************************)
(* Simultaneous image-mode requests.  Streamlit runs the script of every   *)
(* browser session in a thread of its own inside one server process, so    *)
(* all sessions share the working directory.  A request of the image mode  *)
(* with the Tesseract button writes the upload to the fixed path           *)
(* "temp_image.png" (app.py 326-328) and calls image_to_text, whose        *)
(* preprocess_image reads that path (image_to_text.py 10), writes the      *)
(* processed raster to the fixed path "temp_processed.png"                 *)
(* (image_to_text.py 48-50) and whose engine call opens that path again    *)
(* (image_to_text.py 62-66).  A file's content is named by the request     *)
(* whose upload it derives from; 0 is "no such file" and Truncated is a    *)
(* file that exists and holds no bytes.  The hand-off is two steps: open   *)
(* in mode "wb" truncates the file, and the bytes are in it when the with  *)
(* block has written and closed it; a read between the two finds the file  *)
(* empty.  Each call of the cv2 and PIL libraries is one step.             *)
(***************************************************************************)
ConcInit ==
    /\ ConcIdle
    /\ PipeIdle
    /\ ScoreIdle
    /\ GeomIdle
    /\ SkewIdle

\* a session presses the Tesseract button of the image mode (app.py 324)
RequestArrives(r) ==
    /\ cpc[r] = "idle"
    /\ cpc' = [cpc EXCEPT ![r] = "upload"]
    /\ UNCHANGED <<cfs, cgray, cseen>>
    /\ UNCHANGED <<pipeVars, scoreVars, geomVars, skewVars>>

\* with open("temp_image.png", "wb") as f: the file is created or truncated
AppOpenUpload(r) ==
    /\ cpc[r] = "upload"
    /\ cfs' = [cfs EXCEPT !["temp_image.png"] = Truncated]
    /\ cpc' = [cpc EXCEPT ![r] = "write"]
    /\ UNCHANGED <<cgray, cseen>>
    /\ UNCHANGED <<pipeVars, scoreVars, geomVars, skewVars>>

\* f.write(img_bytes) and the close of the with block
AppWriteUpload(r) ==
    /\ cpc[r] = "write"
    /\ cfs' = [cfs EXCEPT !["temp_image.png"] = r]
    /\ cpc' = [cpc EXCEPT ![r] = "imread"]
    /\ UNCHANGED <<cgray, cseen>>
    /\ UNCHANGED <<pipeVars, scoreVars, geomVars, skewVars>>

\* img = cv2.imread(image_path): the run holds whatever the file holds now.
\* On an empty file imread returns None, cv2.cvtColor raises and
\* image_to_text returns its failure: nothing is written, no engine call.
PreprocessRead(r) ==
    /\ cpc[r] = "imread"
    /\ IF cfs["temp_image.png"] \in Runs
       THEN /\ cgray' = [cgray EXCEPT ![r] = cfs["temp_image.png"]]
            /\ cpc' = [cpc EXCEPT ![r] = "imwrite"]
       ELSE /\ cgray' = [cgray EXCEPT ![r] = NoneRead]
            /\ cpc' = [cpc EXCEPT ![r] = "done"]
    /\ UNCHANGED <<cfs, cseen>>
    /\ UNCHANGED <<pipeVars, scoreVars, geomVars, skewVars>>

\* cv2.imwrite("temp_processed.png", gray)
PreprocessWrite(r) ==
    /\ cpc[r] = "imwrite"
    /\ cfs' = [cfs EXCEPT !["temp_processed.png"] = cgray[r]]
    /\ cpc' = [cpc EXCEPT ![r] = "recognize"]
    /\ UNCHANGED <<cgray, cseen>>
    /\ UNCHANGED <<pipeVars, scoreVars, geomVars, skewVars>>

\* pytesseract.image_to_string(Image.open(processed), ...)
Recognize(r) ==
    /\ cpc[r] = "recognize"
    /\ cseen' = [cseen EXCEPT ![r] = cfs["temp_processed.png"]]
    /\ cpc' = [cpc EXCEPT ![r] = "done"]
    /\ UNCHANGED <<cfs, cgray>>
    /\ UNCHANGED <<pipeVars, scoreVars, geomVars, skewVars>>

ConcNext ==
    \E r \in Runs :
        \/ RequestArrives(r)
        \/ AppOpenUpload(r)
        \/ AppWriteUpload(r)
        \/ PreprocessRead(r)
        \/ PreprocessWrite(r)
        \/ Recognize(r)

SpecConc == ConcInit /\ [][ConcNext]_vars

(* C16: concurrent runs are independent: in every interleaving, no run     *)
(* reads a file written by another run, so each run's image is its own     *)
(* upload and the engine of each finished run was invoked on the raster    *)
(* derived from that run's own input.                                      *)
C16_RunsIndependent ==
    \A r \in Runs :
        /\ cgray[r] \in {0, r}
        /\ cpc[r] = "done" => cseen[r] = r


---------------------------------------------------------------------------
\* the place of a position of a run in the run's lifecycle
Rank(p) ==
    CASE p \in {"idle", "dispatch", "preprocess", "prepare"} -> 0
      [] p \in {"gemini", "decode", "recognize", "generate"} -> 1
      [] p = "normalize" -> 2
      [] p = "enhance" -> 3
      [] p = "attempt1" -> 4
      [] p = "attempt2" -> 5
      [] p = "attempt3" -> 6
      [] p = "gate" -> 7
      [] p = "done" -> 8

\* the place of a stage in the order normalize, enhance, attempts
StageRank(st) ==
    CASE st = "decode" -> 0
      [] st = "grayscale" -> 1
      [] st \in {"smooth", "resize"} -> 2
      [] st = "deskew" -> 3
      [] st = "enhance" -> 4
      [] st = "invert" -> 5

\* the stages of a Tesseract scan, in the order of the lifecycle
ScanStages == <<"decode", "grayscale", "resize", "deskew", "enhance", "invert">>

IsPrefix(a, b) == Len(a) <= Len(b) /\ SubSeq(b, 1, Len(a)) = a

LocalAttempts == {i \in DOMAIN attempts : attempts[i].cap = "local"}

\* what holds of every state of a run
LifecycleState ==
    /\ (pc = "done") <=> (outcome # Pending)
    /\ pc = "done" => (outcome.kind = "return" /\ outcome.value.success \in BOOLEAN)
    /\ pc # "done" => ENABLED Next
    /\ \A i, j \in DOMAIN stages : i < j => StageRank(stages[i]) < StageRank(stages[j])
    /\ TessRun => IsPrefix(stages, ScanStages)
    /\ LocalAttempts # {} => "enhance" \in {stages[i] : i \in DOMAIN stages}
    /\ Len(attempts) <= 3

\* what holds of every step of a run
LifecycleStep ==
    /\ Rank(pc') > Rank(pc)
    /\ outcome = Pending
    /\ outcome' # Pending <=> pc' = "done"
    /\ IsPrefix(stages, stages')
    /\ IsPrefix(attempts, attempts')
    /\ (TessRun /\ attempts' # attempts) => SubSeq(stages, 1, 5) = SubSeq(ScanStages, 1, 5)

(* C17: single-shot lifecycle: every run, whatever the engine does, ends   *)
(* after a bounded number of steps (every step moves the run strictly      *)
(* forward through at most eight positions and a run that has not ended    *)
(* can take a step) in one terminal state carrying one result record,      *)
(* accepted or rejected, set once; its stages come in the order grayscale, *)
(* resize, deskew, then enhance, then the attempts, and no stage or        *)
(* attempt is undone or repeated.                                          *)
C17_SingleShotLifecycle == []LifecycleState /\ [][LifecycleStep]_vars

\* a Tesseract scan that went through every stage and all three attempts has
\* ended accepted
C17_Witness ==
    /\ TessRun
    /\ pc = "done"
    /\ stages = ScanStages
    /\ Len(attempts) = 3
    /\ outcome.kind = "return"
    /\ outcome.value.success


---------------------------------------------------------------------------
(* The resize specification: _resize applied to a gray image of h rows and *)
(* w columns.                                                              *)

ResizeInit ==
    /\ rin \in Sizes \X Sizes
    /\ rout = Unsized
    /\ PipeIdle
    /\ ScoreIdle
    /\ ConcIdle
    /\ SkewIdle

ResizeCall ==
    /\ rout = Unsized
    /\ rout' = _resize(rin[1], rin[2])
    /\ UNCHANGED rin
    /\ UNCHANGED <<pipeVars, scoreVars, concVars, skewVars>>

ResizeNext == ResizeCall

SpecResize == ResizeInit /\ [][ResizeNext]_vars

\* the scale factor n/d that _resize applies to rin, 1/1 inside the band
ScaleOf ==
    LET max_side == Max(rin[1], rin[2])
    IN  IF max_side > DOWNSCALE_ABOVE THEN Ratio(DOWNSCALE_ABOVE, max_side)
        ELSE IF max_side < UPSCALE_BELOW THEN Ratio(UPSCALE_TARGET, max_side)
        ELSE ONE

Abs(x) == IF x < 0 THEN -x ELSE x

\* out is within half a pixel of side * ScaleOf
WithinRounding(out, side) ==
    2 * Abs(out * ScaleOf.den - side * ScaleOf.num) <= ScaleOf.den

\* the bounds of the resolution policy on an image that _resize returned
PolicyBounds ==
    LET max_in == Max(rin[1], rin[2])
        max_out == Max(rout.h, rout.w)
    IN  /\ max_in > DOWNSCALE_ABOVE => max_out <= DOWNSCALE_ABOVE
        /\ max_in < UPSCALE_BELOW => max_out >= UPSCALE_TARGET
        /\ (max_in >= UPSCALE_BELOW /\ max_in <= DOWNSCALE_ABOVE)
              => (rout.h = rin[1] /\ rout.w = rin[2])
        /\ WithinRounding(rout.h, rin[1])
        /\ WithinRounding(rout.w, rin[2])

\* whenever _resize returns an image, the image meets the policy
PolicyWhenReturned == rout.kind = "image" => PolicyBounds

(* C18: resolution policy: for every input, _resize returns an image; its  *)
(* longer side is at most 2200 when the input's exceeded 2200 and at least *)
(* 1300 when the input's was below 900, an input in [900, 2200] comes back *)
(* unchanged, and both sides are scaled by the same factor up to rounding. *)
C18_ResolutionPolicy ==
    rout # Unsized => (rout.kind = "image" /\ PolicyBounds)


---------------------------------------------------------------------------
\* the texts str(e) of the exceptions the libraries raise
ExceptionTexts ==
    {e.msg[i] : <<e, i>> \in {TesseractError, Cv2Error, UnidentifiedImageError,
                              CloudError} \X {1}}

(* C19: a rejection carries a human-actionable message: the message of     *)
(* every failure record returned by scan_to_text, image_to_text and        *)
(* analyze_document_ai does not embed the text of an internal exception.   *)
C19_NoRawExceptionText ==
    (pc = "done" /\ outcome.kind = "return" /\ ~outcome.value.success)
        => \A i \in DOMAIN outcome.value.message :
               outcome.value.message[i] \notin ExceptionTexts


---------------------------------------------------------------------------
\* attempt i is the inverted-variant attempt: complement raster, single block
IsInverted(i) == attempts[i].payload = "inv" /\ attempts[i].mode = 6

(* C20: inverted-variant retry: in a Tesseract run whose first attempt     *)
(* returned a text, the inverted attempt (complement of the enhanced       *)
(* raster, single-block mode) is made exactly when the first score is      *)
(* below 0.6, a first score of exactly 0.6 not triggering it, and it is    *)
(* the second attempt and no other; right after it the running best is its *)
(* text if its score strictly exceeds the first score and the first        *)
(* attempt's text otherwise.                                               *)
C20_InvertedRetry ==
    (/\ TessRun
     /\ Len(attempts) >= 1
     /\ attempts[1].ret.kind = "text"
     /\ PastDecisionAfter(1))
    => /\ RatLess(AttemptScore(1), THRESHOLD) <=> Len(attempts) >= 2
       /\ RatEq(AttemptScore(1), THRESHOLD) => Len(attempts) = 1
       /\ \A i \in DOMAIN attempts : IsInverted(i) <=> i = 2
       /\ ("invert" \in {stages[i] : i \in DOMAIN stages}) <=> Len(attempts) >= 2
       /\ (pc = "attempt3" /\ Len(attempts) = 2 /\ attempts[2].ret.kind = "text")
            => text = IF RatLess(AttemptScore(1), AttemptScore(2))
                      THEN AttemptText(2) ELSE AttemptText(1)

\* a finished Tesseract run whose first attempt scored exactly 0.6 and that
\* made no inverted attempt
C20_Witness ==
    /\ TessRun
    /\ pc = "done"
    /\ Len(attempts) = 1
    /\ attempts[1].ret.kind = "text"
    /\ RatEq(AttemptScore(1), THRESHOLD)


---------------------------------------------------------------------------
\* attempt i is the multi-block attempt: enhanced raster, multi-block mode
IsMultiBlock(i) == attempts[i].payload = "proc" /\ attempts[i].mode = 4

\* the running best after the inverted-variant step, attempts 1 and 2
\* having returned texts
BestAfterInverted ==
    IF Len(attempts) >= 2 /\ RatLess(AttemptScore(1), AttemptScore(2))
    THEN AttemptText(2) ELSE AttemptText(1)

(* C21: multi-block retry: in a Tesseract run whose earlier attempts       *)
(* returned texts, the multi-block attempt is made exactly when the        *)
(* running best score is still below 0.6 after the inverted-variant step;  *)
(* it is the third attempt, run on the non-inverted enhanced raster in     *)
(* multi-block mode whichever attempt is the current best, and its text    *)
(* replaces the running best only if its score is strictly higher.         *)
C21_MultiBlockRetry ==
    (/\ TessRun
     /\ pc \in {"gate", "done"}
     /\ Len(attempts) >= 1
     /\ \A i \in DOMAIN attempts : i <= 2 => attempts[i].ret.kind = "text")
    => /\ RatLess(_text_ratio(BestAfterInverted), THRESHOLD) <=> Len(attempts) = 3
       /\ \A i \in DOMAIN attempts : attempts[i].mode = 4 <=> i = 3
       /\ Len(attempts) = 3 => IsMultiBlock(3)
       /\ (Len(attempts) = 3 /\ attempts[3].ret.kind = "text")
            => text = IF RatLess(_text_ratio(BestAfterInverted), AttemptScore(3))
                      THEN AttemptText(3) ELSE BestAfterInverted
       /\ Len(attempts) < 3 => text = BestAfterInverted

\* the inverted variant was the running best, still below 0.6; the
\* multi-block attempt ran on the enhanced raster and its better text won
C21_Witness ==
    /\ TessRun
    /\ pc = "done"
    /\ Len(attempts) = 3
    /\ NoFault
    /\ RatLess(AttemptScore(1), AttemptScore(2))
    /\ RatLess(AttemptScore(2), AttemptScore(3))
    /\ IsMultiBlock(3)
    /\ text = AttemptText(3)


---------------------------------------------------------------------------
\* the payloads that are the caller's bytes as given: the bytes opened as
\* an image, or the temporary file the bytes were written to
RawPayloads == {"image_bytes", "tmp.png", "tmp.pdf"}

(* C22: the cloud capability consumes the original bytes: in a scan_to_text *)
(* run with engine gemini and in an analyze_document_ai run no decode,      *)
(* grayscale, resize, deskew or enhance stage is ever executed, and every   *)
(* invocation is of the cloud capability with a payload made of the         *)
(* caller's unmodified bytes, never the enhanced or inverted raster.        *)
C22_CloudConsumesRawBytes ==
    CloudRun
    => /\ stages = <<>>
       /\ \A i \in DOMAIN attempts :
             /\ attempts[i].cap = "cloud"
             /\ attempts[i].payload \in RawPayloads
             /\ attempts[i].payload \notin {"proc", "inv"}
       /\ (entry = "scan_to_text" /\ attempts # <<>>) => Decodable(input)

\* a Gemini scan has invoked the capability on the opened bytes and returned
\* its text, no stage having run
C22_Witness ==
    /\ GeminiRun
    /\ pc = "done"
    /\ Len(attempts) = 1
    /\ attempts[1].payload = "image_bytes"
    /\ stages = <<>>
    /\ outcome.kind = "return"
    /\ outcome.value.success


---------------------------------------------------------------------------
(* The deskew specification: the two skew estimators applied to one image. *)
(* _deskew (pixel mass) sees the image through the number of its pixels,   *)
(* the number of pixels darker than 200 and the angle cv2.minAreaRect      *)
(* gives for them; preprocess_image (edges and lines) sees it through the  *)
(* lines cv2.HoughLines detects, the empty sequence standing for the None  *)
(* of "no line".  A line is the index k of its angle step: the library     *)
(* accumulates in steps of np.pi / 180 and reports                         *)
(* theta = float32(k * float32(np.pi / 180)).  The code computes angle_deg *)
(* from theta in floating point, and the precision of that arithmetic      *)
(* depends on the NumPy the build runs on: a float32 scalar combined with  *)
(* Python numbers is computed in double precision by NumPy 1.x and in      *)
(* single precision by NumPy 2; the repository pins no version, so both    *)
(* are outcomes.  An angle is the pair <<n, e>> of a whole number of       *)
(* degrees and a deviation from it counted in units of 2^-47 degree        *)
(* (double) or 2^-18 degree (single); every angle_deg of the build is a    *)
(* multiple of that unit and no deviation reaches a degree, so pairs       *)
(* compare lexicographically.  A result angle is held doubled (angle2,     *)
(* dev2), the sum of the two middle angles that np.median forms before     *)
(* halving it.                                                             *)

\* if len(coords) < 100
DARK_MIN == 100

\* if -45 < angle_deg < 45, and if angle < -45
HALF_RIGHT == 45

\* the most lines cv2.HoughLines detects
MaxLines == 3

\* h * w of the images
PixelCounts == {50, 150}

\* len(coords) for an image of p pixels
DarkCounts(p) == {0, 1, 99, 100, p} \cap (0..p)

\* cv2.minAreaRect(coords)[-1]: [-90, 0) up to OpenCV 4.5.0, (0, 90] since
RectAngles == {-90, -89, -46, -45, -44, -1, 0, 1, 44, 45, 46, 89, 90}

\* the angle of the rectangle around a full pixel grid, by library version
AxisAlignedAngles == {-90, 0, 90}

\* the angle steps k of the detected lines: theta is float32(k * step)
ThetaSteps == {0, 44, 45, 46, 90, 93, 133, 135, 179}

\* the arithmetic of a float32 scalar with Python numbers: NumPy 1.x, NumPy 2
Precisions == {"double", "single"}

\* (theta * 180 / np.pi) - 90 less the whole number k - 90, in units of
\* 2^-47 degree in double and 2^-18 degree in single precision:
\*   k    double                    single
\*   0    -90.0                     -90.0
\*   44   -45.99999991395331        -46.000003814697266
\*   45   -44.99999874776092        -45.0
\*   46   -44.000000996663104       -44.000003814697266
\*   90   2.5044781608585254e-06    0.0
\*   93   2.9999991728661826        3.0
\*   133  42.999998009237885        43.0
\*   135  45.000000341622666        45.0
\*   179  88.99999701257477         89.0
Deviation(k, prec) ==
    IF prec = "double"
    THEN CASE k = 0 -> 0
           [] k = 44 -> 12109995
           [] k = 45 -> 176236983
           [] k = 46 -> -140267862
           [] k = 90 -> 352473966
           [] k = 93 -> -116408736
           [] k = 133 -> -280174860
           [] k = 135 -> 48079116
           [] k = 179 -> -420442724
    ELSE CASE k \in {44, 46} -> -1
           [] k \in {0, 45, 90, 93, 133, 135, 179} -> 0

\* angle_deg = (theta * 180 / np.pi) - 90
angle_deg(k, prec) == <<k - 90, Deviation(k, prec)>>

\* a whole number of degrees
Whole(n) == <<n, 0>>

\* a < b
Less(a, b) == a[1] < b[1] \/ (a[1] = b[1] /\ a[2] < b[2])

\* a <= b
Leq(a, b) == a = b \/ Less(a, b)

\* a + b in the precision of a and b: exact below 64, where the unit is the
\* spacing of the floating-point numbers, and rounded to an even number of
\* units, halves to the even neighbour, from 64 on
FloatSum(a, b) ==
    LET n == a[1] + b[1]
        e == a[2] + b[2]
        wide == \/ Abs(n) > 64
                \/ n = 64 /\ e >= 0
                \/ n = -64 /\ e <= 0
    IN  IF ~wide \/ e % 2 = 0 THEN <<n, e>>
        ELSE IF ((e + 1) \div 2) % 2 = 0 THEN <<n, e + 1>>
        ELSE <<n, e - 1>>

SkewInputs ==
    {[fn |-> "_deskew", uniform |-> u, pixels |-> p, dark |-> d, rect |-> a] :
        <<u, p, d, a>> \in
           {x \in BOOLEAN \X PixelCounts \X (0..150) \X RectAngles :
               /\ x[3] \in DarkCounts(x[2])
               /\ x[1] => (x[3] \in {0, x[2]} /\ x[4] \in AxisAlignedAngles)}}
    \cup
    {[fn |-> "preprocess_image", uniform |-> FALSE, lines |-> l, prec |-> p] :
        l \in SeqsUpTo(ThetaSteps, MaxLines), p \in Precisions}
    \cup
    {[fn |-> "preprocess_image", uniform |-> TRUE, lines |-> <<>>, prec |-> p] :
        p \in Precisions}

\* angle_deg of each detected line, in the order of detection
LineAngles(d) == [i \in DOMAIN d.lines |-> angle_deg(d.lines[i], d.prec)]

\* a test that keeps the angles of exactly 45 degrees as well
KeptInclusive(l) ==
    SelectSeq(l, LAMBDA x : Leq(Whole(-HALF_RIGHT), x) /\ Leq(x, Whole(HALF_RIGHT)))

\* angles = [angle_deg for each line if -45 < angle_deg < 45]
Kept(l) ==
    SelectSeq(l, LAMBDA x : Less(Whole(-HALF_RIGHT), x) /\ Less(x, Whole(HALF_RIGHT)))

RECURSIVE Insert(_, _)
Insert(x, s) == IF s = <<>> THEN <<x>>
                ELSE IF Leq(x, Head(s)) THEN <<x>> \o s
                ELSE <<Head(s)>> \o Insert(x, Tail(s))

RECURSIVE Sort(_)
Sort(s) == IF s = <<>> THEN <<>> ELSE Insert(Head(s), Sort(Tail(s)))

\* twice np.median(s), s not empty
Median2(s) ==
    LET n == Len(s)
        t == Sort(s)
    IN  IF n % 2 = 1 THEN <<2 * t[(n + 1) \div 2][1], 2 * t[(n + 1) \div 2][2]>>
        ELSE FloatSum(t[n \div 2], t[n \div 2 + 1])

\* angle = -(90 + angle) if angle < -45 else -angle
Rotation(a) == IF a < -HALF_RIGHT THEN -(90 + a) ELSE -a

NotRun == [kind |-> "none"]

\* the normalizer's result: whether cv2.warpAffine ran and with which angle
Raster(warp, angle) ==
    [kind |-> "raster", warp |-> warp, angle2 |-> angle[1], dev2 |-> angle[2]]

\* a pixel-mass estimator that rotates on any number of dark pixels
_deskewAlways(d) == Raster(TRUE, Whole(2 * Rotation(d.rect)))

_deskew(d) ==
    IF d.dark < DARK_MIN
    THEN Raster(FALSE, Whole(0))
    ELSE Raster(TRUE, Whole(2 * Rotation(d.rect)))

\* preprocess_image, steps 3 and "rotate back": angle and warpAffine
preprocess_skew(d) ==
    IF d.lines # <<>> /\ Kept(LineAngles(d)) # <<>>
    THEN Raster(TRUE, Median2(Kept(LineAngles(d))))
    ELSE Raster(TRUE, Whole(0))

\* whether the raster that comes back equals the one that went in: it does
\* when no warp ran, when the warp is the identity (angle 0) and when the
\* image is uniform (the border is replicated); otherwise it may or may not
SameRaster(d, r) ==
    IF ~r.warp \/ (r.angle2 = 0 /\ r.dev2 = 0) \/ d.uniform THEN {TRUE} ELSE BOOLEAN

\* the normalizer's return: the result r and whether the raster is the same
Normalized(r, same) ==
    [kind |-> "raster", warp |-> r.warp, angle2 |-> r.angle2, dev2 |-> r.dev2,
     same |-> same]

SkewInit ==
    /\ din \in SkewInputs
    /\ dout = NotRun
    /\ PipeIdle
    /\ ScoreIdle
    /\ ConcIdle
    /\ GeomIdle

DeskewCall ==
    /\ din.fn = "_deskew"
    /\ dout = NotRun
    /\ \E same \in SameRaster(din, _deskew(din)) :
         dout' = Normalized(_deskew(din), same)
    /\ UNCHANGED din
    /\ UNCHANGED <<pipeVars, scoreVars, concVars, geomVars>>

PreprocessSkewCall ==
    /\ din.fn = "preprocess_image"
    /\ dout = NotRun
    /\ \E same \in SameRaster(din, preprocess_skew(din)) :
         dout' = Normalized(preprocess_skew(din), same)
    /\ UNCHANGED din
    /\ UNCHANGED <<pipeVars, scoreVars, concVars, geomVars>>

SkewNext == DeskewCall \/ PreprocessSkewCall

SpecSkew == SkewInit /\ [][SkewNext]_vars


---------------------------------------------------------------------------
\* the normalizer has returned
Normalised == dout # NotRun

\* the raster came back as it went in, and no rotation angle was used
NotRotated == dout.angle2 = 0 /\ dout.dev2 = 0 /\ dout.same

(* C23: insufficient signal skips rotation: with fewer than 100 dark       *)
(* pixels (pixel-mass strategy) or with no kept line (edge/line strategy)  *)
(* the normalizer uses angle 0 and the raster comes back unrotated; a      *)
(* rotation is applied only when at least 100 dark pixels, or at least one *)
(* near-horizontal line, were found.                                       *)
C23_InsufficientSignalSkipsRotation ==
    Normalised
    => /\ (din.fn = "_deskew" /\ din.dark < DARK_MIN)
             => (NotRotated /\ ~dout.warp)
       /\ (din.fn = "preprocess_image" /\ Kept(LineAngles(din)) = <<>>)
             => NotRotated
       /\ (din.fn = "_deskew" /\ (dout.warp \/ ~NotRotated))
             => din.dark >= DARK_MIN
       /\ (din.fn = "preprocess_image" /\ ~NotRotated)
             => \E i \in DOMAIN din.lines :
                    /\ Less(Whole(-HALF_RIGHT), LineAngles(din)[i])
                    /\ Less(LineAngles(din)[i], Whole(HALF_RIGHT))

\* _deskew returned an image of 99 dark pixels, whose rectangle is tilted,
\* as it was
C23_Witness ==
    /\ Normalised
    /\ din.fn = "_deskew"
    /\ din.dark = 99
    /\ din.rect = -44
    /\ ~din.uniform
    /\ ~dout.warp
    /\ dout.same

(* C24: a blank or uniform image, of any uniform intensity (also one       *)
(* darker than the dark-pixel threshold 200), yields skew angle 0 and      *)
(* comes back from the geometric normalizer unchanged, and the normalizer  *)
(* does not raise.                                                         *)
C24_UniformImageUnchanged ==
    (Normalised /\ din.uniform)
    => /\ dout.kind = "raster"
       /\ dout.angle2 = 0
       /\ dout.dev2 = 0
       /\ dout.same

(* C25: edge/line skew estimate: preprocess_image keeps only the line      *)
(* angles strictly within 45 degrees of horizontal, the applied skew is    *)
(* the median of the kept angles (as many kept angles at or below it as at *)
(* or above it, and it lies between the two middle ones), so the rotation  *)
(* is strictly between -45 and 45 degrees; with no line detected or none   *)
(* kept the angle is 0.                                                    *)
C25_LineSkewEstimate ==
    (Normalised /\ din.fn = "preprocess_image")
    => LET a == LineAngles(din)
           k == Kept(a)
           skew2 == <<dout.angle2, dout.dev2>>
           Twice(x) == <<2 * x[1], 2 * x[2]>>
           below == {i \in DOMAIN k : Leq(Twice(k[i]), skew2)}
           above == {i \in DOMAIN k : Leq(skew2, Twice(k[i]))}
       IN  /\ \A i \in DOMAIN k :
                 Less(Whole(-HALF_RIGHT), k[i]) /\ Less(k[i], Whole(HALF_RIGHT))
           /\ \A i \in DOMAIN a :
                 (Less(Whole(-HALF_RIGHT), a[i]) /\ Less(a[i], Whole(HALF_RIGHT)))
                    <=> \E j \in DOMAIN k : k[j] = a[i]
           /\ Len(k) <= Len(a)
           /\ Less(Whole(-2 * HALF_RIGHT), skew2)
           /\ Less(skew2, Whole(2 * HALF_RIGHT))
           /\ k = <<>> => skew2 = Whole(0)
           /\ k # <<>> =>
                 /\ 2 * Cardinality(below) >= Len(k)
                 /\ 2 * Cardinality(above) >= Len(k)
                 /\ \E i, j \in DOMAIN k :
                       /\ dout.angle2 = k[i][1] + k[j][1]
                       /\ Abs(dout.dev2 - (k[i][2] + k[j][2])) <= 1

\* a line whose angle_deg is exactly -45 degrees (step 45 in single
\* precision) was dropped and the skew is the mean of the two kept angles,
\* 43 and 3
C25_Witness ==
    /\ Normalised
    /\ din.fn = "preprocess_image"
    /\ din.prec = "single"
    /\ din.lines = <<45, 133, 93>>
    /\ angle_deg(45, "single") = Whole(-HALF_RIGHT)
    /\ dout.angle2 = 46
    /\ dout.dev2 = 0


---------------------------------------------------------------------------
\* the text t holds no form feed and neither starts nor ends with whitespace
IsClean(t) ==
    /\ \A i \in DOMAIN t : t[i] # FormFeed
    /\ Strip(t) = t

(* C26: output normalisation: on both local entry points, image_to_text    *)
(* and the _try helper of scan_to_text, the text the recognition adapter   *)
(* hands on to scoring and to the emptiness test has every form feed       *)
(* removed, wherever it stood, and no leading or trailing whitespace.      *)
C26_AdapterNormalizes ==
    \A i \in DOMAIN attempts :
        (attempts[i].cap = "local" /\ attempts[i].ret.kind = "text")
            => IsClean(attempts[i].ret.text)


---------------------------------------------------------------------------
\* the raster and the segmentation mode of the attempts, in their order
AttemptShapes == << <<"proc", 6>>, <<"inv", 6>>, <<"proc", 4>> >>

\* the attempts made so far are local ones, of the fixed shapes in the fixed
\* order, each with its return recorded
InFixedOrder ==
    /\ Len(attempts) <= 3
    /\ \A i \in DOMAIN attempts :
          /\ attempts[i].cap = "local"
          /\ <<attempts[i].payload, attempts[i].mode>> = AttemptShapes[i]
          /\ attempts[i].ret.kind \in {"text", "raise"}
          /\ i < Len(attempts) => attempts[i].ret.kind = "text"
    /\ \A i \in DOMAIN attempts :
          IsMultiBlock(i) => \E j \in 1..(i - 1) : IsInverted(j)

(* C27 as stated: in any Tesseract run the local engine is invoked at      *)
(* least once and at most three times, in the fixed order (enhanced,       *)
(* single-block), (inverted, single-block), (enhanced, multi-block), the   *)
(* multi-block attempt only after the inverted one.                        *)
C27_AttemptShapeAnyRun ==
    (TessRun /\ pc = "done") => (Len(attempts) >= 1 /\ InFixedOrder)

(* C27, amended: in any Tesseract run the attempts made so far number at   *)
(* most three and come in the fixed order (enhanced, single-block),        *)
(* (inverted, single-block), (enhanced, multi-block), the multi-block      *)
(* attempt only after the inverted one and each attempt returned and       *)
(* scored before the next starts; once the raster has been enhanced and    *)
(* the run is past its first recognition step the engine was invoked at    *)
(* least once; a run that ends before the enhance stage (its input cannot  *)
(* be decoded, or the resize raises) invokes it not at all.                *)
C27_AttemptShape ==
    TessRun
    => /\ InFixedOrder
       /\ (Rank(pc) >= 5 /\ "enhance" \in {stages[i] : i \in DOMAIN stages})
             => Len(attempts) >= 1
       /\ "enhance" \notin {stages[i] : i \in DOMAIN stages} => attempts = <<>>
       /\ (~Decodable(input) \/ input = "strip") => attempts = <<>>
       /\ pc = "attempt1" => Len(attempts) = 0
       /\ pc = "attempt2" => Len(attempts) = 1
       /\ pc = "attempt3" => Len(attempts) \in {1, 2}

\* a finished Tesseract run that made all three attempts
C27_Witness ==
    /\ TessRun
    /\ pc = "done"
    /\ input = "image"
    /\ Len(attempts) = 3
    /\ IsInverted(2)
    /\ IsMultiBlock(3)
    /\ attempts[3].ret.kind = "raise"


---------------------------------------------------------------------------
(* C28: pixel-mass rotation range: for every rectangle angle a in          *)
(* [-90, 90] that the minimum-area-rectangle step can return, the rotation *)
(* _deskew applies, -(90 + a) when a < -45 and -a otherwise, has magnitude *)
(* at most 45 degrees.                                                     *)
C28_RotationWithin45 ==
    (Normalised /\ din.fn = "_deskew" /\ dout.warp)
    => Abs(dout.angle2) <= 2 * HALF_RIGHT

\* for the rectangle angles from -90 to 45 the rotation is at most 45 degrees
RotationWithin45UpTo45 ==
    (Normalised /\ din.fn = "_deskew" /\ dout.warp /\ din.rect <= HALF_RIGHT)
    => Abs(dout.angle2) <= 2 * HALF_RIGHT


---------------------------------------------------------------------------
\* the image that _resize returned has its longer side in the working band
\* and a second _resize leaves its dimensions as they are
InBandAndStable ==
    /\ Max(rout.h, rout.w) >= UPSCALE_BELOW
    /\ Max(rout.h, rout.w) <= DOWNSCALE_ABOVE
    /\ _resize(rout.h, rout.w) = Image(rout.h, rout.w)

\* whenever _resize returns an image, the image is in the band and stable
StableWhenReturned == rout.kind = "image" => InBandAndStable

(* C29: resize is stable: for every input size, _resize gives an image     *)
(* whose longer side lies in the working band [900, 2200], so that         *)
(* applying _resize a second time leaves the dimensions unchanged.         *)
C29_ResizeStable ==
    rout # Unsized => (rout.kind = "image" /\ InBandAndStable)


---------------------------------------------------------------------------
\* the selector values that equal "gemini" when case is ignored
GeminiSelectors == {"gemini", "Gemini"}

(* C30: capability routing: a scan_to_text run uses the cloud capability   *)
(* exactly when its engine selector equals "gemini" case-insensitively and *)
(* the local Tesseract pipeline for every other selector; within one run   *)
(* only one capability is ever invoked: a cloud failure or empty answer    *)
(* is not followed by a local attempt, a local failure is not followed by  *)
(* a cloud attempt, and no exception leaves the call, so the app's Scan    *)
(* mode never makes its second, default-engine call.                       *)
C30_CapabilityRouting ==
    entry = "scan_to_text"
    => /\ \A i \in DOMAIN attempts :
             attempts[i].cap = IF engine \in GeminiSelectors THEN "cloud" ELSE "local"
       /\ engine \in GeminiSelectors
             => (/\ stages = <<>>
                 /\ pc \in {"dispatch", "gemini", "done"}
                 /\ Invocations("local") = 0)
       /\ engine \notin GeminiSelectors
             => (/\ resp = NoResponse
                 /\ pc # "gemini"
                 /\ Invocations("cloud") = 0)
       /\ Invocations("cloud") = 0 \/ Invocations("local") = 0
       /\ outcome.kind # "raise"

\* a scan with the selector "Gemini" whose cloud invocation raised has ended
\* as a failure without a local attempt
C30_Witness ==
    /\ entry = "scan_to_text"
    /\ engine = "Gemini"
    /\ pc = "done"
    /\ Len(attempts) = 1
    /\ attempts[1].cap = "cloud"
    /\ attempts[1].ret.kind = "raise"
    /\ outcome.kind = "return"
    /\ ~outcome.value.success

====
